---------------------------- MODULE Spec2Model ----------------------------
(***************************************************************************)
(* Model of wally-registry-backend/src/auth.rs: the request guards         *)
(* ReadAccess / WriteAccess, the API-key verifier match_api_key, the       *)
(* three-step GitHub verifier verify_github and the write-permission rule  *)
(* WriteAccess::can_write_package.                                         *)
(*                                                                         *)
(* Strings are sequences of one-character strings, Option<T> is a sequence *)
(* of length 0 (None) or 1 (Some).  A URL is a sequence of lexical atoms   *)
(* ("https://", "github.com", "/", "org", ".git", ...).                    *)
(***************************************************************************)
EXTENDS Integers, Sequences, FiniteSets, TLC

VARIABLES config, index, req

vars == <<config, index, req>>

---------------------------------------------------------------------------
(* Bounds of the model                                                     *)

\* longest configured API key
MaxKeyLen == 1

\* longest text that follows the scheme word in an authorization header
MaxTokLen == 2

---------------------------------------------------------------------------
(* Option<T>                                                               *)

None == <<>>

Some(x) == <<x>>

IsSome(o) == o /= <<>>

Unwrap(o) == o[1]

---------------------------------------------------------------------------
(* Strings                                                                 *)

\* characters of keys and tokens: a letter, its upper case, a blank
Alphabet == {"a", "A", " "}

\* char::is_whitespace, restricted to Alphabet
Whitespace == {" "}

StrUpTo(n) == UNION {[1..k -> Alphabet] : k \in 0..n}

\* the literal "Bearer " of lines 94 and 148
Bearer == <<"B", "e", "a", "r", "e", "r", " ">>

\* str::starts_with
starts_with(s, prefix) ==
    /\ Len(s) >= Len(prefix)
    /\ SubSeq(s, 1, Len(prefix)) = prefix

RECURSIVE trim_start(_)
trim_start(s) ==
    IF s /= <<>> /\ Head(s) \in Whitespace THEN trim_start(Tail(s)) ELSE s

RECURSIVE trim_end(_)
trim_end(s) ==
    IF s /= <<>> /\ s[Len(s)] \in Whitespace
    THEN trim_end(SubSeq(s, 1, Len(s) - 1))
    ELSE s

\* str::trim
trim(s) == trim_end(trim_start(s))

\* char::to_lowercase, restricted to Alphabet
lower_char(c) == IF c = "A" THEN "a" ELSE c

\* str::to_lowercase
to_lowercase(s) == [i \in 1..Len(s) |-> lower_char(s[i])]

\* constant_time_eq's accumulator: the OR of the XOR of every byte pair,
\* here the number of positions from i on where a and b differ
RECURSIVE constant_time_ne(_, _, _)
constant_time_ne(a, b, i) ==
    IF i > Len(a)
    THEN 0
    ELSE (IF a[i] /= b[i] THEN 1 ELSE 0) + constant_time_ne(a, b, i + 1)

\* constant_time_eq::constant_time_eq(a, b)
constant_time_eq(a, b) ==
    /\ Len(a) = Len(b)
    /\ constant_time_ne(a, b, 1) = 0

\* a comparison that stops at the first byte that differs
RECURSIVE short_circuit_steps(_, _, _)
short_circuit_steps(a, b, i) ==
    IF i > Len(a)
    THEN 0
    ELSE IF a[i] /= b[i] THEN 1 ELSE 1 + short_circuit_steps(a, b, i + 1)

\* the bytes constant_time_eq looks at from position i on: every one,
\* whether or not a difference was seen before
RECURSIVE constant_time_steps(_, _, _)
constant_time_steps(a, b, i) ==
    IF i > Len(a)
    THEN 0
    ELSE 1 + constant_time_steps(a, b, i + 1)

\* the bytes one call of constant_time_eq(a, b) looks at: none when the
\* lengths differ
constant_time_eq_steps(a, b) ==
    IF Len(a) /= Len(b) THEN 0 ELSE constant_time_steps(a, b, 1)

\* `Some(key) if key.starts_with("Bearer ") => key[6..].trim()`, else None
bearer_token(header) ==
    IF IsSome(header) /\ starts_with(Unwrap(header), Bearer)
    THEN Some(trim(SubSeq(Unwrap(header), 7, Len(Unwrap(header)))))
    ELSE None

\* the bytes match_api_key compares for a header: none when it returns
\* before the comparison
match_api_key_steps(header, key) ==
    IF bearer_token(header) = None
    THEN 0
    ELSE constant_time_eq_steps(key, Unwrap(bearer_token(header)))

---------------------------------------------------------------------------
(* Index URL parsing                                                       *)

RECURSIVE trim_end_matches(_, _)
\* str::trim_end_matches(pat): drops every trailing repetition of pat
trim_end_matches(s, pat) ==
    IF s /= <<>> /\ s[Len(s)] = pat
    THEN trim_end_matches(SubSeq(s, 1, Len(s) - 1), pat)
    ELSE s

RECURSIVE split(_, _)
\* str::split(sep).collect(): the parts between the separators
split(s, sep) ==
    IF \E i \in 1..Len(s) : s[i] = sep
    THEN LET i == CHOOSE j \in 1..Len(s) :
                      s[j] = sep /\ \A k \in 1..(j - 1) : s[k] /= sep
         IN  <<SubSeq(s, 1, i - 1)>> \o split(SubSeq(s, i + 1, Len(s)), sep)
    ELSE <<s>>

\* url.strip_prefix("https://").or_else(|| url.strip_prefix("http://")).unwrap_or(url)
strip_scheme(url) ==
    IF url /= <<>> /\ Head(url) \in {"https://", "http://"} THEN Tail(url) ELSE url

\* Some(<<org, repo>>) or None
extract_github_owner_repo(url) ==
    LET u     == trim_end_matches(trim_end_matches(strip_scheme(url), ".git"), "/")
        parts == split(u, "/")
    IN  IF Len(parts) >= 3 /\ parts[1] = <<"github.com">>
        THEN Some(<<parts[2], parts[3]>>)
        ELSE None

\* the longest path of an index_url that is tried
MaxUrlSegments == 3

\* the names that stand between the slashes of a path
SegmentNames == {"org", "repo"}

\* a URL as written: scheme (or none), host, "/"-led segments, ".git" or
\* not, a closing "/" or not
UrlOf(scheme, host, segs, git, slash) ==
    scheme \o <<host>>
        \o [i \in 1..(2 * Len(segs)) |->
                IF i % 2 = 1 THEN "/" ELSE segs[i \div 2]]
        \o (IF git THEN <<".git">> ELSE <<>>)
        \o (IF slash THEN <<"/">> ELSE <<>>)

Schemes == {<<>>, <<"https://">>, <<"http://">>}

Hosts == {"github.com", "gitlab.com"}

Paths == UNION {[1..n -> SegmentNames] : n \in 0..MaxUrlSegments}

\* the values index_url is tried with
UrlInputs ==
    {UrlOf(s, h, p, g, sl) :
         s \in Schemes, h \in Hosts, p \in Paths, g \in BOOLEAN, sl \in BOOLEAN}

---------------------------------------------------------------------------
(* Values                                                                  *)

\* GithubInfo {login, id}
GithubInfo(login, id) == [login |-> login, id |-> id]

\* the placeholder of an access value that carries no identity
NoInfo == [login |-> <<>>, id |-> 0]

\* ReadAccess::Public
Public == [variant |-> "Public", info |-> NoInfo]

\* ReadAccess::ApiKey, WriteAccess::ApiKey
ApiKeyAccess == [variant |-> "ApiKey", info |-> NoInfo]

\* GithubAccessor::construct: ReadAccess::Github(info), WriteAccess::Github(info)
construct(info) == [variant |-> "Github", info |-> info]

NoAccess == [variant |-> "None", info |-> NoInfo]

\* Outcome::Success(result)
Success(result) == [tag |-> "Success", status |-> 0, msg |-> "", access |-> result]

\* format_err!(msg).status(status).into(): Outcome::Error((status, error))
Failure(status, msg) ==
    [tag |-> "Failure", status |-> status, msg |-> msg, access |-> NoAccess]

\* an unwrap() on None unwinds out of the guard: no Outcome is produced
Panicked(msg) == [tag |-> "Panic", status |-> 0, msg |-> msg, access |-> NoAccess]

\* the guard has not returned yet
Pending == [tag |-> "Pending", status |-> 0, msg |-> "", access |-> NoAccess]

\* rocket::http::Status::Unauthorized
Unauthorized == 401

\* rocket::http::Status::InternalServerError
InternalServerError == 500

\* rocket::http::Status::UnprocessableEntity, reqwest::StatusCode::UNPROCESSABLE_ENTITY
UnprocessableEntity == 422

\* reqwest::StatusCode::OK
StatusOK == 200

---------------------------------------------------------------------------
(* Inputs: configurations, headers, upstream responses, index contents     *)

Requests == {"r1", "r2"}

Keys == StrUpTo(MaxKeyLen)

\* what a client may put before the token: the scheme, the scheme without
\* its blank, the scheme in lower case, nothing
HeaderPrefixes ==
    { Bearer,
      <<"B", "e", "a", "r", "e", "r">>,
      <<"b", "e", "a", "r", "e", "r", " ">>,
      <<>> }

\* request.headers().get_one("authorization")
Headers ==
    {None} \cup {Some(p \o t) : p \in HeaderPrefixes, t \in StrUpTo(MaxTokLen)}

ClientId == <<"c", "i", "d">>

ClientSecret == <<"s", "e", "c">>

ServerToken == <<"g", "h", "s">>

\* AuthMode
AuthModes ==
    {[type |-> "ApiKey", key |-> k] : k \in Keys}
    \cup {[type |-> "DoubleApiKey", read |-> rd, write |-> w] :
              rd \in {None} \cup {Some(k) : k \in Keys}, w \in Keys}
    \cup {[type |-> t, client_id |-> ClientId, client_secret |-> ClientSecret] :
              t \in {"GithubOAuth", "GithubOAuthPrivate"}}
    \cup {[type |-> "Unauthenticated"]}

IsGithubMode(auth) == auth.type \in {"GithubOAuth", "GithubOAuthPrivate"}

GoodIndexUrl == <<"https://", "github.com", "/", "org", "/", "repo">>

IndexUrls ==
    { GoodIndexUrl,
      <<"https://", "gitlab.com", "/", "org", "/", "repo">> }

\* Config {auth, index_url, github_token}.  index_url and github_token are
\* read by verify_github alone, so they vary with the GitHub modes only.
Configs ==
    {[auth |-> a, index_url |-> u, github_token |-> t] :
         a \in {m \in AuthModes : IsGithubMode(m)},
         u \in IndexUrls,
         t \in {None, Some(ServerToken)}}
    \cup {[auth |-> a, index_url |-> GoodIndexUrl, github_token |-> None] :
              a \in {m \in AuthModes : ~IsGithubMode(m)}}

Logins == {<<"a">>, <<"A">>}

Ids == {1, 2}

\* package_id.name().scope()
Scopes == {<<"a">>, <<"b">>}

\* the package index: scope -> ids of its owners.  Scope "a" has any owners,
\* scope "b" has none yet.
Indexes ==
    {[s \in Scopes |-> IF s = <<"a">> THEN owners ELSE {}] : owners \in SUBSET Ids}

\* an upstream answer: Err(transport) or Ok(response with status and JSON body)
TransportError == [ok |-> FALSE, status |-> 0, body |-> [error |-> "transport"]]

Response(status, body) == [ok |-> TRUE, status |-> status, body |-> body]

\* GET /user
UserResponses ==
    {TransportError}
    \cup {Response(st, b) :
              st \in {StatusOK, Unauthorized},
              b \in {GithubInfo(l, i) : l \in Logins, i \in Ids}
                    \cup {[message |-> "Bad credentials"], [login |-> <<"a">>]}}

\* POST /applications/{client_id}/token
TokenResponses ==
    {TransportError}
    \cup {Response(st, b) :
              st \in {StatusOK, UnprocessableEntity, 404},
              b \in { [id |-> 1, app |-> [client_id |-> ClientId]],
                      [id |-> 1, app |-> [name |-> "wally"]],
                      [message |-> "Validation Failed"] }}

Permissions == {"admin", "write", "read", "none"}

\* GET /repos/{owner}/{repo}/collaborators/{username}/permission
PermissionResponses ==
    {TransportError}
    \cup {Response(st, b) :
              st \in {StatusOK, 404},
              b \in {[permission |-> p] : p \in Permissions}
                    \cup {[message |-> "Not Found"]}}

\* response.json::<GithubInfo>(): Some(info) or None (Err)
parse_GithubInfo(body) ==
    IF {"login", "id"} \subseteq DOMAIN body
    THEN Some(GithubInfo(body.login, body.id))
    ELSE None

\* response.json::<ValidatedGithubInfo>(): is it Ok
parse_ValidatedGithubInfo_ok(body) ==
    /\ {"id", "app"} \subseteq DOMAIN body
    /\ "client_id" \in DOMAIN body.app

\* response.json::<GithubPermissionInfo>(): Some(permission) or None (Err)
parse_GithubPermissionInfo(body) ==
    IF "permission" \in DOMAIN body THEN Some(body.permission) ELSE None

---------------------------------------------------------------------------
(* A request being resolved                                                *)

\* a request no guard has been run for
IdleRequest ==
    [ kind        |-> "none",      \* "read": ReadAccess, "write": WriteAccess
      header      |-> None,        \* its authorization header
      pc          |-> "idle",      \* idle, await_user, await_token,
                                   \* await_permission, done
      policy      |-> "none",      \* IndexAccessPolicy of verify_github
      token       |-> <<>>,        \* verify_github's `token`
      github_info |-> NoInfo,      \* verify_github's `github_info`
      calls       |-> <<>>,        \* the outbound calls sent, in order
      key_checks  |-> <<>>,        \* the keys match_api_key was called with
      key_steps   |-> 0,           \* the bytes its comparison looked at
      outcome     |-> Pending,     \* what the guard returned
      scope       |-> <<>>,        \* the scope can_write_package was asked for
      lookups     |-> <<>>,        \* the index lookups of can_write_package
      can_write   |-> [tag |-> "none", value |-> FALSE] ]

\* client.get(..)/post(..)...send(): one outbound call, not yet answered
Call(endpoint, args) == [endpoint |-> endpoint, args |-> args, response |-> None]

\* `.send()`: the call is on the wire and the guard waits at `.await`
send(rq, call, pc) == [rq EXCEPT !.calls = Append(@, call), !.pc = pc]

\* `.await` returns: the last call sent has its answer
answered(rq, resp) == [rq EXCEPT !.calls[Len(rq.calls)].response = Some(resp)]

\* `return outcome`
finish(rq, outcome) == [rq EXCEPT !.pc = "done", !.outcome = outcome]

\* a call of match_api_key(request, key, ..) is on record
checked_key(rq, key) ==
    [rq EXCEPT !.key_checks = Append(@, key),
               !.key_steps = @ + match_api_key_steps(rq.header, key)]

---------------------------------------------------------------------------
(* match_api_key                                                           *)

\* match_api_key comparing the text after "Bearer " as it was sent
match_api_key_untrimmed(header, key, result) ==
    IF IsSome(header) /\ starts_with(Unwrap(header), Bearer)
    THEN IF constant_time_eq(key, SubSeq(Unwrap(header), 8, Len(Unwrap(header))))
         THEN Success(result)
         ELSE Failure(Unauthorized, "Invalid API key for read access")
    ELSE Failure(Unauthorized, "API key required")

match_api_key(header, key, result) ==
    LET input_api_key == bearer_token(header)
    IN  IF input_api_key = None
        THEN Failure(Unauthorized, "API key required")
        ELSE IF constant_time_eq(key, Unwrap(input_api_key))
             THEN Success(result)
             ELSE Failure(Unauthorized, "Invalid API key for read access")

---------------------------------------------------------------------------
(* verify_github, cut at its await points                                  *)

\* verify_github taking the token from any header that is present
verify_github_any_scheme(rq, index_access_policy) ==
    IF rq.header = None
    THEN finish(rq, Failure(Unauthorized, "Github auth required"))
    ELSE LET token == trim(SubSeq(Unwrap(rq.header), 7, Len(Unwrap(rq.header))))
         IN  send([rq EXCEPT !.policy = index_access_policy, !.token = token],
                  Call("user", [bearer |-> token]),
                  "await_user")

\* lines 147-163: the token is taken from the header and GET /user is sent
verify_github(rq, index_access_policy) ==
    LET token == bearer_token(rq.header)
    IN  IF token = None
        THEN finish(rq, Failure(Unauthorized, "Github auth required"))
        ELSE send([rq EXCEPT !.policy = index_access_policy,
                             !.token = Unwrap(token)],
                  Call("user", [bearer |-> Unwrap(token)]),
                  "await_user")

\* on_user_response sending GET /user once more when the transport failed
on_user_response_retry(rq, cfg, resp) ==
    LET rq1 == answered(rq, resp)
    IN  IF ~resp.ok
        THEN IF Len(rq.calls) < 2
             THEN send(rq1, Call("user", [bearer |-> rq.token]), "await_user")
             ELSE finish(rq1, Failure(InternalServerError, "transport"))
        ELSE LET github_info == parse_GithubInfo(resp.body)
             IN  IF github_info = None
                 THEN finish(rq1, Failure(Unauthorized, "Github auth failed"))
                 ELSE send([rq1 EXCEPT !.github_info = Unwrap(github_info)],
                           Call("token",
                                [client_id     |-> cfg.auth.client_id,
                                 client_secret |-> cfg.auth.client_secret,
                                 access_token  |-> rq.token]),
                           "await_token")

\* lines 165-192: the answer of GET /user, then the token-grant call is sent
on_user_response(rq, cfg, resp) ==
    LET rq1 == answered(rq, resp)
    IN  IF ~resp.ok
        THEN finish(rq1, Failure(InternalServerError, "transport"))
        ELSE LET github_info == parse_GithubInfo(resp.body)
             IN  IF github_info = None
                 THEN finish(rq1, Failure(Unauthorized, "Github auth failed"))
                 ELSE send([rq1 EXCEPT !.github_info = Unwrap(github_info)],
                           Call("token",
                                [client_id     |-> cfg.auth.client_id,
                                 client_secret |-> cfg.auth.client_secret,
                                 access_token  |-> rq.token]),
                           "await_token")

\* lines 224-244: the collaborator check reads the configuration and is sent
send_permission_check(rq, cfg) ==
    LET owner_repo == extract_github_owner_repo(cfg.index_url)
    IN  IF owner_repo = None
        THEN finish(rq, Panicked("index_url"))
        ELSE IF cfg.github_token = None
             THEN finish(rq, Panicked("github_token"))
             ELSE send(rq,
                       Call("permission",
                            [owner    |-> Unwrap(owner_repo)[1],
                             repo     |-> Unwrap(owner_repo)[2],
                             username |-> rq.github_info.login,
                             bearer   |-> Unwrap(cfg.github_token)]),
                       "await_permission")

\* on_token_response going on whatever the status, as the identity lookup does
on_token_response_status_unchecked(rq, cfg, resp) ==
    LET rq1 == answered(rq, resp)
    IN  IF ~resp.ok
        THEN finish(rq1, Failure(InternalServerError, "transport"))
        ELSE IF ~parse_ValidatedGithubInfo_ok(resp.body)
        THEN finish(rq1, Failure(Unauthorized, "Github auth failed"))
        ELSE IF rq.policy = "Required"
        THEN send_permission_check(rq1, cfg)
        ELSE finish(rq1, Success(construct(rq.github_info)))

\* on_token_response without the arm for 422
on_token_response_no_422_arm(rq, cfg, resp) ==
    LET rq1 == answered(rq, resp)
    IN  IF ~resp.ok
        THEN finish(rq1, Failure(InternalServerError, "transport"))
        ELSE IF resp.status /= StatusOK
        THEN finish(rq1, Failure(UnprocessableEntity, "Github auth failed because"))
        ELSE IF ~parse_ValidatedGithubInfo_ok(resp.body)
        THEN finish(rq1, Failure(Unauthorized, "Github auth failed"))
        ELSE IF rq.policy = "Required"
        THEN send_permission_check(rq1, cfg)
        ELSE finish(rq1, Success(construct(rq.github_info)))

\* on_token_response going on to the collaborator check whatever the policy
on_token_response_policy_ignored(rq, cfg, resp) ==
    LET rq1 == answered(rq, resp)
    IN  IF ~resp.ok
        THEN finish(rq1, Failure(InternalServerError, "transport"))
        ELSE IF resp.status = UnprocessableEntity
        THEN finish(rq1, Failure(Unauthorized, "GitHub auth was invalid"))
        ELSE IF resp.status /= StatusOK
        THEN finish(rq1, Failure(UnprocessableEntity, "Github auth failed because"))
        ELSE IF ~parse_ValidatedGithubInfo_ok(resp.body)
        THEN finish(rq1, Failure(Unauthorized, "Github auth failed"))
        ELSE send_permission_check(rq1, cfg)

\* lines 194-244 and 270: the answer of the token-grant call
on_token_response(rq, cfg, resp) ==
    LET rq1 == answered(rq, resp)
    IN  IF ~resp.ok
        THEN finish(rq1, Failure(InternalServerError, "transport"))
        ELSE IF resp.status = UnprocessableEntity
        THEN finish(rq1, Failure(Unauthorized, "GitHub auth was invalid"))
        ELSE IF resp.status /= StatusOK
        THEN finish(rq1, Failure(UnprocessableEntity, "Github auth failed because"))
        ELSE IF ~parse_ValidatedGithubInfo_ok(resp.body)
        THEN finish(rq1, Failure(Unauthorized, "Github auth failed"))
        ELSE IF rq.policy = "Required"
        THEN send_permission_check(rq1, cfg)
        ELSE finish(rq1, Success(construct(rq.github_info)))

\* on_permission_response letting in whoever GitHub knows a permission for
on_permission_response_any_permission(rq, resp) ==
    LET rq1 == answered(rq, resp)
    IN  IF ~resp.ok
        THEN finish(rq1, Failure(InternalServerError, "transport"))
        ELSE LET permission_info == parse_GithubPermissionInfo(resp.body)
             IN  IF permission_info = None
                 THEN finish(rq1, Failure(Unauthorized, "Github auth failed"))
                 ELSE finish(rq1, Success(construct(rq.github_info)))

\* lines 246-270: the answer of the collaborator-permission call
on_permission_response(rq, resp) ==
    LET rq1 == answered(rq, resp)
    IN  IF ~resp.ok
        THEN finish(rq1, Failure(InternalServerError, "transport"))
        ELSE LET permission_info == parse_GithubPermissionInfo(resp.body)
             IN  IF permission_info = None
                 THEN finish(rq1, Failure(Unauthorized, "Github auth failed"))
                 ELSE IF Unwrap(permission_info) \in {"admin", "write", "read"}
                      THEN finish(rq1, Success(construct(rq.github_info)))
                      ELSE finish(rq1, Failure(Unauthorized, "GitHub auth was invalid"))

---------------------------------------------------------------------------
(* The guards                                                              *)

\* the read guard verifying the caller in mode GithubOAuth as the write guard does
ReadAccess_from_request_oauth_gated(rq, cfg) ==
    CASE cfg.auth.type = "Unauthenticated" -> finish(rq, Success(Public))
      [] cfg.auth.type = "GithubOAuth" -> verify_github(rq, "Optional")
      [] cfg.auth.type = "GithubOAuthPrivate" -> verify_github(rq, "Required")
      [] cfg.auth.type = "ApiKey" ->
             finish(checked_key(rq, cfg.auth.key),
                    match_api_key(rq.header, cfg.auth.key, ApiKeyAccess))
      [] cfg.auth.type = "DoubleApiKey" ->
             IF cfg.auth.read = None
             THEN finish(rq, Success(Public))
             ELSE finish(checked_key(rq, Unwrap(cfg.auth.read)),
                         match_api_key(rq.header, Unwrap(cfg.auth.read),
                                       ApiKeyAccess))

\* the read guard of DoubleApiKey comparing with the write key
ReadAccess_from_request_write_key(rq, cfg) ==
    CASE cfg.auth.type = "Unauthenticated" -> finish(rq, Success(Public))
      [] cfg.auth.type = "GithubOAuth" -> finish(rq, Success(Public))
      [] cfg.auth.type = "GithubOAuthPrivate" -> verify_github(rq, "Required")
      [] cfg.auth.type = "ApiKey" ->
             finish(checked_key(rq, cfg.auth.key),
                    match_api_key(rq.header, cfg.auth.key, ApiKeyAccess))
      [] cfg.auth.type = "DoubleApiKey" ->
             IF cfg.auth.read = None
             THEN finish(rq, Success(Public))
             ELSE finish(checked_key(rq, cfg.auth.write),
                         match_api_key(rq.header, cfg.auth.write, ApiKeyAccess))

\* <ReadAccess as FromRequest>::from_request, up to its first await
ReadAccess_from_request(rq, cfg) ==
    CASE cfg.auth.type = "Unauthenticated" -> finish(rq, Success(Public))
      [] cfg.auth.type = "GithubOAuth" -> finish(rq, Success(Public))
      [] cfg.auth.type = "GithubOAuthPrivate" -> verify_github(rq, "Required")
      [] cfg.auth.type = "ApiKey" ->
             finish(checked_key(rq, cfg.auth.key),
                    match_api_key(rq.header, cfg.auth.key, ApiKeyAccess))
      [] cfg.auth.type = "DoubleApiKey" ->
             IF cfg.auth.read = None
             THEN finish(rq, Success(Public))
             ELSE finish(checked_key(rq, Unwrap(cfg.auth.read)),
                         match_api_key(rq.header, Unwrap(cfg.auth.read),
                                       ApiKeyAccess))

\* the write guard letting everyone in when no authentication is configured
WriteAccess_from_request_open(rq, cfg) ==
    CASE cfg.auth.type = "Unauthenticated" -> finish(rq, Success(ApiKeyAccess))
      [] cfg.auth.type = "ApiKey" ->
             finish(checked_key(rq, cfg.auth.key),
                    match_api_key(rq.header, cfg.auth.key, ApiKeyAccess))
      [] cfg.auth.type = "DoubleApiKey" ->
             finish(checked_key(rq, cfg.auth.write),
                    match_api_key(rq.header, cfg.auth.write, ApiKeyAccess))
      [] cfg.auth.type = "GithubOAuth" -> verify_github(rq, "Optional")
      [] cfg.auth.type = "GithubOAuthPrivate" -> verify_github(rq, "Required")

\* the write guard verifying under the Optional policy in both GitHub modes
WriteAccess_from_request_optional(rq, cfg) ==
    CASE cfg.auth.type = "Unauthenticated" ->
             finish(rq, Failure(Unauthorized, "Invalid API key for write access"))
      [] cfg.auth.type = "ApiKey" ->
             finish(checked_key(rq, cfg.auth.key),
                    match_api_key(rq.header, cfg.auth.key, ApiKeyAccess))
      [] cfg.auth.type = "DoubleApiKey" ->
             finish(checked_key(rq, cfg.auth.write),
                    match_api_key(rq.header, cfg.auth.write, ApiKeyAccess))
      [] cfg.auth.type = "GithubOAuth" -> verify_github(rq, "Optional")
      [] cfg.auth.type = "GithubOAuthPrivate" -> verify_github(rq, "Optional")

\* <WriteAccess as FromRequest>::from_request, up to its first await
WriteAccess_from_request(rq, cfg) ==
    CASE cfg.auth.type = "Unauthenticated" ->
             finish(rq, Failure(Unauthorized, "Invalid API key for write access"))
      [] cfg.auth.type = "ApiKey" ->
             finish(checked_key(rq, cfg.auth.key),
                    match_api_key(rq.header, cfg.auth.key, ApiKeyAccess))
      [] cfg.auth.type = "DoubleApiKey" ->
             finish(checked_key(rq, cfg.auth.write),
                    match_api_key(rq.header, cfg.auth.write, ApiKeyAccess))
      [] cfg.auth.type = "GithubOAuth" -> verify_github(rq, "Optional")
      [] cfg.auth.type = "GithubOAuthPrivate" -> verify_github(rq, "Required")

---------------------------------------------------------------------------
(* The package index and the write-permission rule                         *)

\* a lookup's result: Err(io) or Ok(value)
LookupErr == [ok |-> FALSE, value |-> {}]

LookupOk(v) == [ok |-> TRUE, value |-> v]

\* PackageIndex::is_scope_owner(scope, id): Ok(the id is an owner of scope)
is_scope_owner(idx, scope, id, fails) ==
    IF fails THEN [ok |-> FALSE, value |-> FALSE] ELSE LookupOk(id \in idx[scope])

\* PackageIndex::get_scope_owners(scope): Ok(the owners of scope)
get_scope_owners(idx, scope, fails) ==
    IF fails THEN LookupErr ELSE LookupOk(idx[scope])

\* can_write_package comparing the login with the scope as it is spelled
can_write_package_case_sensitive(access, scope, idx, fails1, fails2) ==
    IF access.variant = "ApiKey"
    THEN [lookups |-> <<>>, result |-> [tag |-> "Ok", value |-> TRUE]]
    ELSE LET l1 == is_scope_owner(idx, scope, access.info.id, fails1)
             c1 == [op |-> "is_scope_owner", ok |-> l1.ok]
         IN  IF ~l1.ok
             THEN [lookups |-> <<c1>>, result |-> [tag |-> "Err", value |-> FALSE]]
             ELSE IF l1.value
             THEN [lookups |-> <<c1>>, result |-> [tag |-> "Ok", value |-> TRUE]]
             ELSE IF access.info.login /= scope
             THEN [lookups |-> <<c1>>, result |-> [tag |-> "Ok", value |-> FALSE]]
             ELSE LET l2 == get_scope_owners(idx, scope, fails2)
                      c2 == [op |-> "get_scope_owners", ok |-> l2.ok]
                  IN  IF ~l2.ok
                      THEN [lookups |-> <<c1, c2>>,
                            result |-> [tag |-> "Err", value |-> FALSE]]
                      ELSE [lookups |-> <<c1, c2>>,
                            result |-> [tag |-> "Ok", value |-> l2.value = {}]]

\* can_write_package answering "no" when the owners cannot be read
can_write_package_error_is_no(access, scope, idx, fails1, fails2) ==
    IF access.variant = "ApiKey"
    THEN [lookups |-> <<>>, result |-> [tag |-> "Ok", value |-> TRUE]]
    ELSE LET l1 == is_scope_owner(idx, scope, access.info.id, fails1)
             c1 == [op |-> "is_scope_owner", ok |-> l1.ok]
         IN  IF ~l1.ok
             THEN [lookups |-> <<c1>>, result |-> [tag |-> "Err", value |-> FALSE]]
             ELSE IF l1.value
             THEN [lookups |-> <<c1>>, result |-> [tag |-> "Ok", value |-> TRUE]]
             ELSE IF to_lowercase(access.info.login) /= scope
             THEN [lookups |-> <<c1>>, result |-> [tag |-> "Ok", value |-> FALSE]]
             ELSE LET l2 == get_scope_owners(idx, scope, fails2)
                      c2 == [op |-> "get_scope_owners", ok |-> l2.ok]
                  IN  [lookups |-> <<c1, c2>>,
                       result |-> [tag |-> "Ok", value |-> l2.ok /\ l2.value = {}]]

\* WriteAccess::can_write_package(package_id, index), the index failing its
\* first (fails1) or second (fails2) lookup.  Returns the lookups done and
\* the anyhow::Result<bool>: tag "Ok" with its value, or tag "Err".
can_write_package(access, scope, idx, fails1, fails2) ==
    IF access.variant = "ApiKey"
    THEN [lookups |-> <<>>, result |-> [tag |-> "Ok", value |-> TRUE]]
    ELSE LET l1 == is_scope_owner(idx, scope, access.info.id, fails1)
             c1 == [op |-> "is_scope_owner", ok |-> l1.ok]
         IN  IF ~l1.ok
             THEN [lookups |-> <<c1>>, result |-> [tag |-> "Err", value |-> FALSE]]
             ELSE IF l1.value
             THEN [lookups |-> <<c1>>, result |-> [tag |-> "Ok", value |-> TRUE]]
             ELSE IF to_lowercase(access.info.login) /= scope
             THEN [lookups |-> <<c1>>, result |-> [tag |-> "Ok", value |-> FALSE]]
             ELSE LET l2 == get_scope_owners(idx, scope, fails2)
                      c2 == [op |-> "get_scope_owners", ok |-> l2.ok]
                  IN  IF ~l2.ok
                      THEN [lookups |-> <<c1, c2>>,
                            result |-> [tag |-> "Err", value |-> FALSE]]
                      ELSE [lookups |-> <<c1, c2>>,
                            result |-> [tag |-> "Ok", value |-> l2.value = {}]]

---------------------------------------------------------------------------
(* The state machine                                                       *)

\* Config is loaded once at launch, the index is whatever it is, and no
\* request has arrived.
Init ==
    /\ config \in Configs
    /\ index \in Indexes
    /\ req = [r \in Requests |-> IdleRequest]

\* a request with an authorization header out of H reaches the ReadAccess
\* guard
ReadRequestFrom(r, H) ==
    \E h \in H :
        /\ req[r].pc = "idle"
        /\ req' = [req EXCEPT ![r] =
                       ReadAccess_from_request(
                           [@ EXCEPT !.kind = "read", !.header = h], config)]
        /\ UNCHANGED <<config, index>>

\* a request with some authorization header reaches the ReadAccess guard
ReadRequest(r) == ReadRequestFrom(r, Headers)

\* the WriteAccess guard keeping what it found out: a request whose header
\* was granted to another request before is granted the same without asking
WriteRequestFrom_cached(r, H) ==
    \E h \in H :
        /\ req[r].pc = "idle"
        /\ req' = [req EXCEPT ![r] =
                       IF \E s \in Requests :
                              /\ req[s].kind = "write"
                              /\ req[s].header = h
                              /\ req[s].outcome.tag = "Success"
                       THEN LET s == CHOOSE s \in Requests :
                                         /\ req[s].kind = "write"
                                         /\ req[s].header = h
                                         /\ req[s].outcome.tag = "Success"
                            IN  finish([@ EXCEPT !.kind = "write", !.header = h],
                                       req[s].outcome)
                       ELSE WriteAccess_from_request(
                                [@ EXCEPT !.kind = "write", !.header = h], config)]
        /\ UNCHANGED <<config, index>>

\* a request with an authorization header out of H reaches the WriteAccess
\* guard
WriteRequestFrom(r, H) ==
    \E h \in H :
        /\ req[r].pc = "idle"
        /\ req' = [req EXCEPT ![r] =
                       WriteAccess_from_request(
                           [@ EXCEPT !.kind = "write", !.header = h], config)]
        /\ UNCHANGED <<config, index>>

\* a request with some authorization header reaches the WriteAccess guard
WriteRequest(r) == WriteRequestFrom(r, Headers)

\* GET /user is answered
UserResponse(r) ==
    \E resp \in UserResponses :
        /\ req[r].pc = "await_user"
        /\ req' = [req EXCEPT ![r] = on_user_response(@, config, resp)]
        /\ UNCHANGED <<config, index>>

\* POST /applications/{client_id}/token is answered
TokenResponse(r) ==
    \E resp \in TokenResponses :
        /\ req[r].pc = "await_token"
        /\ req' = [req EXCEPT ![r] = on_token_response(@, config, resp)]
        /\ UNCHANGED <<config, index>>

\* GET /repos/{owner}/{repo}/collaborators/{username}/permission is answered
PermissionResponse(r) ==
    \E resp \in PermissionResponses :
        /\ req[r].pc = "await_permission"
        /\ req' = [req EXCEPT ![r] = on_permission_response(@, resp)]
        /\ UNCHANGED <<config, index>>

\* the handler of a request that was granted write access asks whether it
\* may write a package of some scope
CanWritePackage(r) ==
    \E scope \in Scopes, fails1 \in BOOLEAN, fails2 \in BOOLEAN :
        /\ req[r].pc = "done"
        /\ req[r].kind = "write"
        /\ req[r].outcome.tag = "Success"
        /\ req[r].can_write.tag = "none"
        /\ LET res == can_write_package(req[r].outcome.access, scope, index,
                                        fails1, fails2)
           IN  req' = [req EXCEPT ![r].scope = scope,
                                  ![r].lookups = res.lookups,
                                  ![r].can_write = res.result]
        /\ UNCHANGED <<config, index>>

Step(r) ==
    \/ ReadRequest(r)
    \/ WriteRequest(r)
    \/ UserResponse(r)
    \/ TokenResponse(r)
    \/ PermissionResponse(r)
    \/ CanWritePackage(r)

\* one request resolved at a time
Next == Step("r1")

Spec == Init /\ [][Next]_vars

---------------------------------------------------------------------------
(* Vocabulary of the properties                                            *)

Mode == config.auth.type

Done(r) == req[r].pc = "done"

Granted(r) == req[r].outcome.tag = "Success"

Denied(r, status) ==
    /\ req[r].pc = "done"
    /\ req[r].outcome.tag = "Failure"
    /\ req[r].outcome.status = status

NoOutboundCall(r) == req[r].calls = <<>>

\* the header is present and its first seven bytes are "Bearer "
HasBearerPrefix(h) ==
    /\ h /= None
    /\ Len(h[1]) >= 7
    /\ \A i \in 1..7 : h[1][i] = Bearer[i]

\* strings of blanks
Blanks == UNION {[1..k -> Whitespace] : k \in 0..(MaxTokLen + 1)}

\* h is "Bearer ", blanks, k, blanks, and k has no blank at either end
PresentsKey(h, k) ==
    /\ h /= None
    /\ \E lead \in Blanks, trail \in Blanks : h[1] = Bearer \o lead \o k \o trail
    /\ k = <<>> \/ (k[1] \notin Whitespace /\ k[Len(k)] \notin Whitespace)

\* the request is resolved by comparing with key k: either guard in mode
\* ApiKey(k), the write guard in mode DoubleApiKey{write: k}
KeyVerified(r, k) ==
    \/ Mode = "ApiKey" /\ req[r].kind \in {"read", "write"} /\ config.auth.key = k
    \/ Mode = "DoubleApiKey" /\ req[r].kind = "write" /\ config.auth.write = k

\* the request is resolved by a verifier of credentials
VerifiesCredential(r) ==
    \/ Mode = "ApiKey" /\ req[r].kind \in {"read", "write"}
    \/ Mode = "DoubleApiKey" /\ req[r].kind = "write"
    \/ Mode = "DoubleApiKey" /\ req[r].kind = "read" /\ config.auth.read /= None
    \/ Mode = "GithubOAuth" /\ req[r].kind = "write"
    \/ Mode = "GithubOAuthPrivate" /\ req[r].kind \in {"read", "write"}

\* the answer of the i-th outbound call of the request, if it has one
Answered(r, i) == i <= Len(req[r].calls) /\ req[r].calls[i].response /= None

Answer(r, i) == req[r].calls[i].response[1]

---------------------------------------------------------------------------
(* C1: API-key verification                                                *)

\* C1: as stated.  For every configured key k and every header, access is
\* granted if and only if the header is exactly "Bearer k"; anything else is
\* denied with 401; no outbound call is made.
C1_GrantedIffHeaderIsBearerKey ==
    \A r \in Requests : \A k \in Keys :
        KeyVerified(r, k) =>
            /\ Done(r)
            /\ Granted(r) <=> req[r].header = Some(Bearer \o k)
            /\ ~Granted(r) => Denied(r, Unauthorized)
            /\ NoOutboundCall(r)

\* C1: as amended.  Access is granted if and only if the header is "Bearer ",
\* any blanks, k, any blanks, and k itself neither starts nor ends with a
\* blank; every other header is denied with 401; no outbound call is made.
C1_GrantedIffHeaderPresentsKey ==
    \A r \in Requests : \A k \in Keys :
        KeyVerified(r, k) =>
            /\ Done(r)
            /\ Granted(r) <=> PresentsKey(req[r].header, k)
            /\ Granted(r) => req[r].outcome.access = ApiKeyAccess
            /\ ~Granted(r) => Denied(r, Unauthorized)
            /\ NoOutboundCall(r)

\* a key is accepted from a header that pads it with a blank
C1_Witness ==
    \E r \in Requests :
        /\ KeyVerified(r, <<"a">>)
        /\ req[r].header = Some(Bearer \o <<"a", " ">>)
        /\ Granted(r)

---------------------------------------------------------------------------
(* C2: no credential, no verification                                      *)

\* C2: wherever a credential is verified, a request whose authorization
\* header is missing or does not start with "Bearer " is rejected with 401,
\* and no outbound call is made for it.
C2_MissingCredentialRejected ==
    \A r \in Requests :
        (VerifiesCredential(r) /\ ~HasBearerPrefix(req[r].header)) =>
            /\ Denied(r, Unauthorized)
            /\ NoOutboundCall(r)

\* a read in private mode with the scheme in lower case is turned away
C2_Witness ==
    \E r \in Requests :
        /\ Mode = "GithubOAuthPrivate"
        /\ req[r].kind = "read"
        /\ req[r].header = Some(<<"b", "e", "a", "r", "e", "r", " ", "a">>)
        /\ Denied(r, Unauthorized)

---------------------------------------------------------------------------
(* C3: open reads                                                          *)

\* the modes whose reads are open
ReadIsOpen ==
    \/ Mode \in {"Unauthenticated", "GithubOAuth"}
    \/ Mode = "DoubleApiKey" /\ config.auth.read = None

\* C3: in modes Unauthenticated, GithubOAuth and DoubleApiKey{read: None}
\* every read request, whatever its authorization header, is granted
\* ReadAccess::Public, with no key comparison and no outbound call.
C3_OpenReadsArePublic ==
    \A r \in Requests :
        (req[r].kind = "read" /\ ReadIsOpen) =>
            /\ Done(r)
            /\ req[r].outcome = Success(Public)
            /\ req[r].key_checks = <<>>
            /\ NoOutboundCall(r)

\* a read with a malformed header is granted Public where OAuth guards writes
C3_Witness ==
    \E r \in Requests :
        /\ Mode = "GithubOAuth"
        /\ req[r].kind = "read"
        /\ req[r].header = Some(<<"a">>)
        /\ req[r].outcome = Success(Public)

---------------------------------------------------------------------------
(* C4: write always requires a credential                                  *)

\* the GitHub verifier passed: the identity lookup was answered with a body
\* that parsed, the token-grant validation with 200 and a body that parsed,
\* and under the Required policy the collaborator check with a permission
\* of admin, write or read
GithubVerifierPassed(r) ==
    /\ Answered(r, 1)
    /\ req[r].calls[1].endpoint = "user"
    /\ Answer(r, 1).ok
    /\ {"login", "id"} \subseteq DOMAIN Answer(r, 1).body
    /\ Answered(r, 2)
    /\ req[r].calls[2].endpoint = "token"
    /\ Answer(r, 2).ok
    /\ Answer(r, 2).status = 200
    /\ {"id", "app"} \subseteq DOMAIN Answer(r, 2).body
    /\ "client_id" \in DOMAIN Answer(r, 2).body.app
    /\ Mode = "GithubOAuthPrivate" =>
           /\ Answered(r, 3)
           /\ req[r].calls[3].endpoint = "permission"
           /\ Answer(r, 3).ok
           /\ "permission" \in DOMAIN Answer(r, 3).body
           /\ Answer(r, 3).body.permission \in {"admin", "write", "read"}

\* C4: in mode Unauthenticated every write request fails with 401; in every
\* mode a WriteAccess is produced only for a request whose authorization
\* header starts with "Bearer " and that passed the mode's verifier, and it
\* is never Public.
C4_WriteRequiresCredential ==
    \A r \in Requests :
        req[r].kind = "write" =>
            /\ Mode = "Unauthenticated" => Denied(r, Unauthorized)
            /\ Granted(r) =>
                   /\ HasBearerPrefix(req[r].header)
                   /\ req[r].outcome.access.variant \in {"ApiKey", "Github"}
                   /\ Mode \in {"ApiKey", "DoubleApiKey"} =>
                          /\ req[r].outcome.access = ApiKeyAccess
                          /\ \E k \in Keys :
                                 /\ KeyVerified(r, k)
                                 /\ PresentsKey(req[r].header, k)
                   /\ Mode \in {"GithubOAuth", "GithubOAuthPrivate"} =>
                          /\ req[r].outcome.access.variant = "Github"
                          /\ GithubVerifierPassed(r)

\* with no authentication configured, a write that presents a bearer token
\* is still turned away
C4_Witness ==
    \E r \in Requests :
        /\ Mode = "Unauthenticated"
        /\ req[r].kind = "write"
        /\ HasBearerPrefix(req[r].header)
        /\ Denied(r, Unauthorized)

---------------------------------------------------------------------------
(* C5, C6: the write-permission rule                                       *)

\* can_write_package has been called for the request
AskedCanWrite(r) == req[r].can_write.tag /= "none"

\* the rule of C5 for an access, a scope and the owners of the scope
MayWrite(access, scope, owners) ==
    \/ access.variant = "ApiKey"
    \/ /\ access.variant = "Github"
       /\ \/ access.info.id \in owners
          \/ /\ to_lowercase(access.info.login) = scope
             /\ owners = {}

\* C5: whenever the index lookups succeed, can_write_package is true exactly
\* when the access is ApiKey, or it is Github(identity) and the identity's id
\* owns the scope, or the identity's lower-cased login equals the scope and
\* the scope has no owners.
C5_CanWriteRule ==
    \A r \in Requests :
        req[r].can_write.tag = "Ok" =>
            req[r].can_write.value
                = MayWrite(req[r].outcome.access, req[r].scope, index[req[r].scope])

\* login "A" may claim the scope "a" that nobody owns
C5_Witness ==
    \E r \in Requests :
        /\ req[r].outcome.access.variant = "Github"
        /\ req[r].outcome.access.info.login = <<"A">>
        /\ req[r].scope = <<"a">>
        /\ index[<<"a">>] = {}
        /\ req[r].can_write = [tag |-> "Ok", value |-> TRUE]

\* C6 (state part): a lookup that fails makes can_write_package fail; the
\* lookups are is_scope_owner, then at most get_scope_owners, the second
\* only after the first succeeded; an ApiKey access consults no index.
C6_LookupErrorsPropagate ==
    \A r \in Requests :
        AskedCanWrite(r) =>
            /\ (\E i \in 1..Len(req[r].lookups) : ~req[r].lookups[i].ok)
                   <=> req[r].can_write.tag = "Err"
            /\ Len(req[r].lookups) <= 2
            /\ \A i \in 1..Len(req[r].lookups) :
                   req[r].lookups[i].op
                       = <<"is_scope_owner", "get_scope_owners">>[i]
            /\ Len(req[r].lookups) = 2 => req[r].lookups[1].ok
            /\ req[r].outcome.access.variant = "ApiKey" => req[r].lookups = <<>>
            /\ req[r].outcome.access.variant = "Github" => req[r].lookups /= <<>>

\* C6: index errors are never turned into a permission answer: when a lookup
\* of can_write_package fails, can_write_package returns the error, neither
\* Ok(true) nor Ok(false); the index is only read, never changed; for
\* WriteAccess::ApiKey it is not consulted at all.
C6_IndexErrorsNeverAnswer ==
    /\ []C6_LookupErrorsPropagate
    /\ [][index' = index]_vars

\* get_scope_owners failed after is_scope_owner said no, and the error came back
C6_Witness ==
    \E r \in Requests :
        /\ Len(req[r].lookups) = 2
        /\ req[r].lookups[1].ok
        /\ ~req[r].lookups[2].ok
        /\ req[r].can_write.tag = "Err"

---------------------------------------------------------------------------
(* C7 - C10: the GitHub verifier                                           *)

\* the identity lookup came back and its body parsed as {login, id}: what
\* verify_github takes for success of step 1
UserStepPassed(r) ==
    /\ Answered(r, 1)
    /\ Answer(r, 1).ok
    /\ {"login", "id"} \subseteq DOMAIN Answer(r, 1).body

\* the token-grant validation came back with 200 and the expected fields
TokenStepPassed(r) ==
    /\ Answered(r, 2)
    /\ Answer(r, 2).ok
    /\ Answer(r, 2).status = 200
    /\ {"id", "app"} \subseteq DOMAIN Answer(r, 2).body
    /\ "client_id" \in DOMAIN Answer(r, 2).body.app

Endpoints(r) == [i \in 1..Len(req[r].calls) |-> req[r].calls[i].endpoint]

C9_Witness ==
    \E r \in Requests :
        /\ Answered(r, 2)
        /\ Answer(r, 2).ok
        /\ Answer(r, 2).status = 404
        /\ Done(r)
        /\ req[r].outcome.tag = "Failure"
        /\ req[r].outcome.status = UnprocessableEntity

\* C9: step 2 answered 200 with the expected fields: verification goes on
\* (to a grant under the Optional policy, to the collaborator check under
\* Required); 200 with a malformed body, or 422: a 401 denial; any other
\* status: an unexpected-upstream error, neither a grant nor a 401; so a
\* GitHub-verified access is granted only when step 2 answered 200.
C9_TokenGrantOutcomes ==
    \A r \in Requests :
        /\ (Answered(r, 2) /\ Answer(r, 2).ok) =>
               LET resp == Answer(r, 2)
               IN  /\ TokenStepPassed(r) =>
                          /\ req[r].policy = "Optional" =>
                                 Granted(r) /\ Len(req[r].calls) = 2
                          /\ req[r].policy = "Required" =>
                                 \/ Len(req[r].calls) = 3
                                 \/ req[r].outcome.tag = "Panic"
                   /\ (resp.status = 200 /\ ~TokenStepPassed(r)) =>
                          Denied(r, Unauthorized) /\ Len(req[r].calls) = 2
                   /\ resp.status = 422 =>
                          Denied(r, Unauthorized) /\ Len(req[r].calls) = 2
                   /\ resp.status \notin {200, 422} =>
                          /\ Done(r)
                          /\ req[r].outcome.tag = "Failure"
                          /\ req[r].outcome.status \in {422, 500}
                          /\ Len(req[r].calls) = 2
        /\ (Granted(r) /\ req[r].outcome.access.variant = "Github") =>
               /\ Answered(r, 2)
               /\ Answer(r, 2).ok
               /\ Answer(r, 2).status = 200

\* C10: as stated.  Whenever GET /user is answered with a status that is not
\* 2xx, or with a body that does not parse as {login, id}, verification ends
\* with a 401 denial and step 2 is not called.
C10_IdentityLookupRejectsNon2xx ==
    \A r \in Requests :
        (/\ Answered(r, 1)
         /\ Answer(r, 1).ok
         /\ \/ Answer(r, 1).status \notin 200..299
            \/ ~({"login", "id"} \subseteq DOMAIN Answer(r, 1).body)) =>
            /\ Denied(r, Unauthorized)
            /\ Len(req[r].calls) = 1

---------------------------------------------------------------------------
(* C11: transport failures                                                 *)

\* C11: when sending any of the three outbound calls fails at transport
\* level, the request ends at once with a 500 error, neither a 401 nor a
\* grant; no later step is attempted and no call is retried: each of the
\* three endpoints is called at most once per request.
C11_TransportFailureEndsWith500 ==
    \A r \in Requests :
        /\ \A i \in 1..Len(req[r].calls) :
               (Answered(r, i) /\ ~Answer(r, i).ok) =>
                   /\ Denied(r, InternalServerError)
                   /\ i = Len(req[r].calls)
        /\ \A i, j \in 1..Len(req[r].calls) :
               i /= j => req[r].calls[i].endpoint /= req[r].calls[j].endpoint

\* the token-grant validation could not be sent and the request ended with 500
C11_Witness ==
    \E r \in Requests :
        /\ Len(req[r].calls) = 2
        /\ Answered(r, 2)
        /\ ~Answer(r, 2).ok
        /\ Denied(r, InternalServerError)

---------------------------------------------------------------------------
(* C12: does every resolution end                                          *)

\* the configurations that verify with GitHub
InitGithub ==
    /\ Init
    /\ IsGithubMode(config.auth)

\* what the server does by itself: it runs a guard on a request that came
\* in and the handler of a request that was let in.  An answer of GitHub is
\* GitHub's to give: verify_github builds its client with Client::new(),
\* which sets no timeout, so nothing in the server stands in for an answer
\* that does not come.
ServerStep(r) ==
    \/ ReadRequest(r)
    \/ WriteRequest(r)
    \/ CanWritePackage(r)

SpecLive == InitGithub /\ [][Next]_vars /\ WF_vars(ServerStep("r1"))

\* C12: every access resolution that verifies with GitHub ends with an
\* outcome, a grant or an error, even when an upstream endpoint never
\* answers.
C12_EveryResolutionCompletes ==
    \A r \in Requests : (req[r].kind /= "none") ~> Done(r)

---------------------------------------------------------------------------
(* C13: a private registry whose own GitHub settings are unusable          *)

\* the collaborator check cannot be built from the configuration
Misconfigured ==
    \/ extract_github_owner_repo(config.index_url) = None
    \/ config.github_token = None

\* the request got past the token-grant validation under the Required
\* policy, which is where the collaborator check starts
ReachedCollaboratorCheck(r) ==
    /\ req[r].policy = "Required"
    /\ UserStepPassed(r)
    /\ TokenStepPassed(r)

\* C13: in GithubOAuthPrivate with an index_url that is no GitHub URL or
\* with no github_token, a request that reaches the collaborator check ends
\* with 500 Internal Server Error: it is not granted, it is not answered
\* 401, and the handler does not panic.
C13_MisconfigurationEndsWith500 ==
    \A r \in Requests :
        (Mode = "GithubOAuthPrivate" /\ Misconfigured
            /\ ReachedCollaboratorCheck(r)) =>
                Denied(r, InternalServerError)

---------------------------------------------------------------------------
(* C14: owner and repository out of index_url                              *)

\* a private registry with a server token and any of the URLs as index_url
UrlConfigs ==
    {[auth |-> [type |-> "GithubOAuthPrivate", client_id |-> ClientId,
                client_secret |-> ClientSecret],
      index_url |-> u,
      github_token |-> Some(ServerToken)] : u \in UrlInputs}

InitUrl ==
    /\ config \in UrlConfigs
    /\ index = [s \in Scopes |-> {}]
    /\ req = [r \in Requests |-> IdleRequest]

\* a read with a bearer token goes through verify_github, whose third step
\* applies extract_github_owner_repo to index_url
NextUrl ==
    \/ ReadRequestFrom("r1", {Some(Bearer \o <<"a">>)})
    \/ UserResponse("r1")
    \/ TokenResponse("r1")
    \/ PermissionResponse("r1")

SpecUrl == InitUrl /\ [][NextUrl]_vars

\* the URLs of the form (https://|http://)?github.com/<owner>/<repo>(.git)?(/)?
\* with the owner and the repository each names
GithubRepoUrls ==
    {[url |-> UrlOf(s, "github.com", <<o, p>>, g, sl), owner |-> <<o>>, repo |-> <<p>>] :
         s \in Schemes, o \in SegmentNames, p \in SegmentNames,
         g \in BOOLEAN, sl \in BOOLEAN}

\* C14: for every index_url of the form
\* (https://|http://)?github.com/<owner>/<repo>(.git)?(/)? the collaborator
\* check is made for exactly that owner and repository, also when both
\* ".git" and a closing "/" are there; every other URL (another host, no
\* repository segment, further path segments) fails to parse.
C14_OwnerRepoOfIndexUrl ==
    \A r \in Requests :
        ReachedCollaboratorCheck(r) =>
            IF \E f \in GithubRepoUrls : f.url = config.index_url
            THEN \A f \in GithubRepoUrls :
                     f.url = config.index_url =>
                         /\ Len(req[r].calls) = 3
                         /\ req[r].calls[3].args.owner = f.owner
                         /\ req[r].calls[3].args.repo = f.repo
            ELSE /\ Len(req[r].calls) = 2
                 /\ req[r].outcome = Panicked("index_url")

---------------------------------------------------------------------------
(* C15: the key comparison does not tell where a wrong key goes wrong      *)

\* one key for everything, long enough for a wrong key to go wrong at its
\* first byte or at a later one
TimingKeys == StrUpTo(MaxKeyLen + 1)

InitTiming ==
    /\ config \in {[auth |-> [type |-> "ApiKey", key |-> k],
                    index_url |-> GoodIndexUrl,
                    github_token |-> None] : k \in TimingKeys}
    /\ index = [s \in Scopes |-> {}]
    /\ req = [r \in Requests |-> IdleRequest]

\* two requests, each presenting its own key to match_api_key
NextTiming ==
    \/ ReadRequest("r1")
    \/ WriteRequest("r2")

SpecTiming == InitTiming /\ [][NextTiming]_vars

\* the request presented a key as long as the configured one and was turned
\* down for it
WrongKeyOfRightLength(r) ==
    /\ req[r].key_checks = <<config.auth.key>>
    /\ Denied(r, Unauthorized)
    /\ bearer_token(req[r].header) /= None
    /\ Len(Unwrap(bearer_token(req[r].header))) = Len(config.auth.key)

\* the first position where the presented key differs from the configured
FirstMismatch(r) ==
    LET t == Unwrap(bearer_token(req[r].header))
    IN  CHOOSE i \in 1..Len(t) :
            /\ t[i] /= config.auth.key[i]
            /\ \A j \in 1..(i - 1) : t[j] = config.auth.key[j]

---------------------------------------------------------------------------
(* C16: which verifier each guard runs                                     *)

\* the request was resolved by match_api_key against k alone, and what
\* match_api_key returned is what the guard returned
ResolvedByKey(r, k) ==
    /\ Done(r)
    /\ req[r].key_checks = <<k>>
    /\ NoOutboundCall(r)
    /\ Granted(r) <=> PresentsKey(req[r].header, k)
    /\ Granted(r) => req[r].outcome = Success(ApiKeyAccess)
    /\ ~Granted(r) =>
           /\ Denied(r, Unauthorized)
           /\ req[r].outcome.msg =
                  (IF HasBearerPrefix(req[r].header)
                   THEN "Invalid API key for read access"
                   ELSE "API key required")

\* the request was handed to verify_github with the given policy, and what
\* verify_github returned is what the guard returned
ResolvedByGithub(r, policy) ==
    /\ req[r].key_checks = <<>>
    /\ IF HasBearerPrefix(req[r].header)
       THEN req[r].policy = policy
       ELSE req[r].outcome = Failure(Unauthorized, "Github auth required")
    /\ Granted(r) <=> (Done(r) /\ GithubVerifierPassed(r))
    /\ Granted(r) =>
           req[r].outcome =
               Success(construct(GithubInfo(Answer(r, 1).body.login,
                                            Answer(r, 1).body.id)))
    /\ policy = "Optional" => Len(req[r].calls) <= 2

\* C16: a read in mode ApiKey(key) or DoubleApiKey{read: Some(key)} is
\* granted ReadAccess::ApiKey exactly when the key verifier accepts key (the
\* write key of DoubleApiKey opens no read unless it equals the read key); a
\* read in mode GithubOAuthPrivate is granted ReadAccess::Github exactly
\* when GitHub verification under the Required policy succeeds; a write in
\* mode GithubOAuth is verified under the Optional policy and in mode
\* GithubOAuthPrivate under the Required policy; a verifier's failure is the
\* guard's failure.
C16_DispatchByMode ==
    \A r \in Requests :
        /\ (req[r].kind = "read" /\ Mode = "ApiKey") =>
               ResolvedByKey(r, config.auth.key)
        /\ (req[r].kind = "read" /\ Mode = "DoubleApiKey"
               /\ config.auth.read /= None) =>
               ResolvedByKey(r, Unwrap(config.auth.read))
        /\ (req[r].kind = "read" /\ Mode = "GithubOAuthPrivate") =>
               ResolvedByGithub(r, "Required")
        /\ (req[r].kind = "write" /\ Mode = "GithubOAuth") =>
               ResolvedByGithub(r, "Optional")
        /\ (req[r].kind = "write" /\ Mode = "GithubOAuthPrivate") =>
               ResolvedByGithub(r, "Required")

\* a read that presents the write key of DoubleApiKey, which is not the read
\* key, is turned away
C16_Witness ==
    \E r \in Requests :
        /\ Mode = "DoubleApiKey"
        /\ config.auth.read = Some(<<"a">>)
        /\ config.auth.write = <<"A">>
        /\ req[r].kind = "read"
        /\ req[r].header = Some(Bearer \o <<"A">>)
        /\ Denied(r, Unauthorized)

---------------------------------------------------------------------------
(* C17: when the collaborator check and its configuration come into play   *)

\* index_url and github_token were read: the guard either aborted on them
\* or sent the collaborator check built from them
ReadIndexSettings(r) ==
    \/ req[r].outcome.tag = "Panic"
    \/ \E i \in 1..Len(req[r].calls) : req[r].calls[i].endpoint = "permission"

---------------------------------------------------------------------------
(* C18: requests resolved side by side                                     *)

\* the two bearer tokens the concurrent requests come with
ConcHeaders == {Some(Bearer \o <<"a">>), Some(Bearer \o <<"A">>)}

\* a registry that verifies with GitHub and is set up for it
InitConc ==
    /\ config \in {c \in Configs : /\ IsGithubMode(c.auth)
                                   /\ c.index_url = GoodIndexUrl
                                   /\ c.github_token = Some(ServerToken)}
    /\ index = [s \in Scopes |-> IF s = <<"a">> THEN {1} ELSE {}]
    /\ req = [r \in Requests |-> IdleRequest]

\* the requests are resolved concurrently: every step of a guard is a step
\* of any of them, in any interleaving
NextConc ==
    \E r \in Requests :
        \/ ReadRequestFrom(r, ConcHeaders)
        \/ WriteRequestFrom(r, ConcHeaders)
        \/ UserResponse(r)
        \/ TokenResponse(r)
        \/ PermissionResponse(r)

SpecConc == InitConc /\ [][NextConc]_vars

\* the request made the identity lookup and the token-grant validation
\* itself, with the token of its own header, and under the Required policy
\* the collaborator check for the login its own lookup gave
VerifiedByItself(r) ==
    /\ Len(req[r].calls) = (IF req[r].policy = "Required" THEN 3 ELSE 2)
    /\ \A i \in 1..Len(req[r].calls) : Answered(r, i) /\ Answer(r, i).ok
    /\ req[r].calls[1].endpoint = "user"
    /\ Some(req[r].calls[1].args.bearer) = bearer_token(req[r].header)
    /\ req[r].calls[2].endpoint = "token"
    /\ Some(req[r].calls[2].args.access_token) = bearer_token(req[r].header)
    /\ Answer(r, 2).status = StatusOK
    /\ req[r].policy = "Required" =>
           /\ req[r].calls[3].endpoint = "permission"
           /\ req[r].calls[3].args.username = Answer(r, 1).body.login

\* what a request sent and what it was answered
Exchange(r) == <<req[r].kind, req[r].header, req[r].calls>>

\* a step is a step of one request and leaves the others, the configuration
\* and the index as they were
OneRequestSteps ==
    \E r \in Requests :
        /\ \A s \in Requests \ {r} : req'[s] = req[s]
        /\ UNCHANGED <<config, index>>

\* C18: however the requests interleave, a request's outcome depends on the
\* configuration, its own header and the answers to its own calls alone;
\* every granted GitHub-verified access comes after that request's own
\* identity lookup and token-grant validation (and its own collaborator
\* check under the Required policy); nothing is granted on the strength of
\* another request's verification.
C18_RequestsAreIndependent ==
    /\ [](\A r \in Requests :
              (Granted(r) /\ req[r].outcome.access.variant = "Github") =>
                  VerifiedByItself(r))
    /\ [](\A r, s \in Requests :
              (Done(r) /\ Done(s) /\ Exchange(r) = Exchange(s)) =>
                  req[r].outcome = req[s].outcome)
    /\ [][OneRequestSteps]_vars

\* a token was granted to one request and, GitHub having revoked it since,
\* is turned away for the next
C18_Witness ==
    /\ req["r1"].kind = "write"
    /\ req["r2"].kind = "write"
    /\ req["r1"].header = req["r2"].header
    /\ Granted("r1")
    /\ Answered("r2", 2)
    /\ Answer("r2", 2).status = UnprocessableEntity
    /\ Denied("r2", Unauthorized)

---------------------------------------------------------------------------
(* C19: who may write may read                                             *)

\* one request is put to both guards, as on a route that asks for a
\* ReadAccess and a WriteAccess: "r1" is its ReadAccess resolution, "r2" its
\* WriteAccess resolution
RequestToBothGuards ==
    \E h \in Headers :
        /\ req["r1"].pc = "idle"
        /\ req["r2"].pc = "idle"
        /\ req' = [req EXCEPT
                       !["r1"] = ReadAccess_from_request(
                                     [@ EXCEPT !.kind = "read", !.header = h],
                                     config),
                       !["r2"] = WriteAccess_from_request(
                                     [@ EXCEPT !.kind = "write", !.header = h],
                                     config)]
        /\ UNCHANGED <<config, index>>

InitBoth ==
    /\ config \in Configs
    /\ index = [s \in Scopes |-> {}]
    /\ req = [r \in Requests |-> IdleRequest]

NextBoth ==
    \/ RequestToBothGuards
    \/ \E r \in Requests :
           \/ UserResponse(r)
           \/ TokenResponse(r)
           \/ PermissionResponse(r)

SpecBoth == InitBoth /\ [][NextBoth]_vars

\* upstream answered the two resolutions alike: call by call, as far as both
\* went, the same answer
SameAnswers ==
    \A i \in 1..Len(req["r1"].calls) :
        i <= Len(req["r2"].calls) =>
            req["r1"].calls[i].response = req["r2"].calls[i].response

\* the write key of a DoubleApiKey whose read key is another one is presented
PresentsWriteKeyOnly ==
    /\ Mode = "DoubleApiKey"
    /\ config.auth.read /= None
    /\ Unwrap(config.auth.read) /= config.auth.write
    /\ PresentsKey(req["r2"].header, config.auth.write)

\* C19: in every mode, for every request and every fixed set of upstream
\* answers, if the WriteAccess resolution succeeds then so does the
\* ReadAccess resolution of the same request; the one exception is mode
\* DoubleApiKey{read: Some(r), write: w} with r /= w, where a request that
\* presents w is granted write and denied read.
C19_WriteImpliesRead ==
    (Done("r1") /\ Done("r2") /\ SameAnswers) =>
        /\ Granted("r2") => (Granted("r1") \/ PresentsWriteKeyOnly)
        /\ PresentsWriteKeyOnly =>
               /\ Granted("r2")
               /\ Denied("r1", Unauthorized)

\* a collaborator is granted the write and the read of a private registry
\* on the same three answers
C19_Witness ==
    /\ Mode = "GithubOAuthPrivate"
    /\ Granted("r1")
    /\ Granted("r2")
    /\ Len(req["r1"].calls) = 3
    /\ SameAnswers

=============================================================================
